---- MODULE Spec2Model ----
(***************************************************************************)
(* Model of the diet-data pipeline: the composable useDietData()           *)
(* (src/src/composables/useDietData.ts) and the chart component's          *)
(* normalisation (src/src/components/DietStackedBar3D.vue).                *)
(*                                                                         *)
(* JavaScript values are modelled by records of one shape, [t, s, n]:      *)
(* t is the typeof tag, s the string content (or String(v) of an object),  *)
(* n the number.  Numbers are exact rationals [k, n, d] together with NaN, *)
(* Infinity and -Infinity; IEEE rounding is not modelled.  Strings are     *)
(* TLA+ strings; the string conversions (trim, toLowerCase, replace,       *)
(* parseFloat, Number#toString) are given by what they return on the       *)
(* strings that occur in the modelled inputs.                              *)
(***************************************************************************)
EXTENDS Integers, Sequences, FiniteSets, TLC

\* ------------------------------------------------------------------------
\* Bounds of the model
\* ------------------------------------------------------------------------
MaxRows == 3

MaxLoads == 2

\* ------------------------------------------------------------------------
\* JavaScript numbers
\* ------------------------------------------------------------------------
Abs(x) == IF x < 0 THEN -x ELSE x

RECURSIVE GCD(_, _)
GCD(a, b) == IF b = 0 THEN a ELSE GCD(b, a % b)

NaN == [k |-> "nan", n |-> 0, d |-> 1]

PosInfinity == [k |-> "inf", n |-> 1, d |-> 1]

NegInfinity == [k |-> "inf", n |-> -1, d |-> 1]

\* the finite number n/d (d > 0), in lowest terms
Fin(n, d) == LET g == GCD(Abs(n), d) IN [k |-> "fin", n |-> n \div g, d |-> d \div g]

Zero == Fin(0, 1)

IsNaN(x) == x.k = "nan"

IsFinite(x) == x.k = "fin"

Sign(x) == IF x.n > 0 THEN 1 ELSE IF x.n < 0 THEN -1 ELSE 0

Signed(s) == IF s < 0 THEN NegInfinity ELSE PosInfinity

\* a + b
NumAdd(a, b) ==
  IF IsNaN(a) \/ IsNaN(b) THEN NaN
  ELSE IF IsFinite(a) /\ IsFinite(b) THEN Fin(a.n * b.d + b.n * a.d, a.d * b.d)
  ELSE IF IsFinite(a) THEN b
  ELSE IF IsFinite(b) THEN a
  ELSE IF a = b THEN a ELSE NaN

\* a * b
NumMul(a, b) ==
  IF IsNaN(a) \/ IsNaN(b) THEN NaN
  ELSE IF IsFinite(a) /\ IsFinite(b) THEN Fin(a.n * b.n, a.d * b.d)
  ELSE IF Sign(a) = 0 \/ Sign(b) = 0 THEN NaN
  ELSE Signed(Sign(a) * Sign(b))

\* a / b  (zeros are +0: the model has no -0)
NumDiv(a, b) ==
  IF IsNaN(a) \/ IsNaN(b) THEN NaN
  ELSE IF IsFinite(a) /\ IsFinite(b) THEN
         IF b.n = 0 THEN (IF a.n = 0 THEN NaN ELSE Signed(a.n))
         ELSE Fin(a.n * b.d * Sign(b), a.d * Abs(b.n))
  ELSE IF IsFinite(a) THEN Zero
  ELSE IF IsFinite(b) THEN Signed(Sign(a) * (IF b.n < 0 THEN -1 ELSE 1))
  ELSE NaN

\* a < b  (false when either is NaN)
NumLt(a, b) ==
  IF IsNaN(a) \/ IsNaN(b) THEN FALSE
  ELSE IF IsFinite(a) /\ IsFinite(b) THEN a.n * b.d < b.n * a.d
  ELSE IF IsFinite(a) THEN b = PosInfinity
  ELSE IF IsFinite(b) THEN a = NegInfinity
  ELSE a = NegInfinity /\ b = PosInfinity

NumLeq(a, b) == NumLt(a, b) \/ (a = b /\ ~IsNaN(a))

\* Math.max(...values): -Infinity for no argument, NaN if any argument is NaN
RECURSIVE MathMax(_)
MathMax(values) ==
  IF values = <<>> THEN NegInfinity
  ELSE LET r == MathMax(Tail(values))
           h == Head(values)
       IN IF IsNaN(h) \/ IsNaN(r) THEN NaN
          ELSE IF NumLt(h, r) THEN r ELSE h

\* ------------------------------------------------------------------------
\* JavaScript values
\* ------------------------------------------------------------------------
Undefined == [t |-> "undefined", s |-> "", n |-> Zero]

Null == [t |-> "null", s |-> "", n |-> Zero]

Str(s) == [t |-> "string", s |-> s, n |-> Zero]

Num(x) == [t |-> "number", s |-> "", n |-> x]

\* an object, carried by its String() conversion
Obj(s) == [t |-> "object", s |-> s, n |-> Zero]

\* ToBoolean(v)
Truthy(v) ==
  CASE v.t = "undefined" -> FALSE
    [] v.t = "null" -> FALSE
    [] v.t = "string" -> v.s # ""
    [] v.t = "number" -> ~IsNaN(v.n) /\ v.n # Zero
    [] OTHER -> TRUE

\* Number.prototype.toString on the numbers the inputs hold
NumberToString(x) ==
  CASE x = Fin(1, 1) -> "1"
    [] x = Fin(7, 1) -> "7"
    [] x = Fin(10, 1) -> "10"
    [] x = Fin(20, 1) -> "20"
    [] x = Fin(-5, 1) -> "-5"
    [] x = Zero -> "0"
    [] x = Fin(5, 2) -> "2.5"
    [] x = Fin(404, 1) -> "404"
    [] x = Fin(500, 1) -> "500"
    [] x = NaN -> "NaN"
    [] x = PosInfinity -> "Infinity"
    [] x = NegInfinity -> "-Infinity"

\* v.toString() / String(v)
toString(v) ==
  CASE v.t = "string" -> v.s
    [] v.t = "number" -> NumberToString(v.n)
    [] v.t = "object" -> v.s
    [] v.t = "null" -> "null"
    [] OTHER -> "undefined"

\* ------------------------------------------------------------------------
\* String primitives, on the strings of the modelled inputs
\* ------------------------------------------------------------------------
\* String.prototype.trim
trim(s) ==
  CASE s = " fish " -> "fish"
    [] s = "  " -> ""
    [] s = " Diet " -> "Diet"
    [] s = " 20 " -> "20"
    [] OTHER -> s

\* String.prototype.toLowerCase
toLowerCase(s) ==
  CASE s = "Veggie" -> "veggie"
    [] s = "Male" -> "male"
    [] s = "All" -> "all"
    [] s = "Diet" -> "diet"
    [] s = "Diet_Group" -> "diet_group"
    [] s = "Gender" -> "gender"
    [] s = "GHGs" -> "ghgs"
    [] OTHER -> s

\* s.replace(/\s+/g, '_')
replaceSpaces(s) ==
  CASE s = "Diet Group" -> "Diet_Group"
    [] s = " fish " -> "_fish_"
    [] s = " Diet " -> "_Diet_"
    [] s = "  " -> "_"
    [] s = " 20 " -> "_20_"
    [] OTHER -> s

\* s.replace(/,/g, '.')
replaceCommas(s) ==
  CASE s = "2,5" -> "2.5"
    [] OTHER -> s

\* the strings Papa's FLOAT pattern /^\s*-?(\d+\.?|\.\d+|\d+\.\d+)([eE][-+]?\d+)?\s*$/ accepts
testFloat(s) == s \in {"0", "1", "7", "10", "20", "-5", " 20 ", "2.5"}

\* parseFloat(s): the longest numeric prefix after leading white space, else NaN
parseFloat(s) ==
  CASE s = "0" -> Zero
    [] s = "1" -> Fin(1, 1)
    [] s = "7" -> Fin(7, 1)
    [] s = "10" -> Fin(10, 1)
    [] s = "20" -> Fin(20, 1)
    [] s = " 20 " -> Fin(20, 1)
    [] s = "20-29" -> Fin(20, 1)
    [] s = "30-39" -> Fin(30, 1)
    [] s = "-5" -> Fin(-5, 1)
    [] s = "2.5" -> Fin(5, 2)
    [] s = "2,5" -> Fin(2, 1)
    [] OTHER -> NaN

\* ------------------------------------------------------------------------
\* Plain JavaScript objects: entries [k, v] in insertion order, keys unique
\* ------------------------------------------------------------------------
EmptyObject == <<>>

HasOwn(o, k) == \E i \in 1..Len(o) : o[i].k = k

GetOwn(o, k) == o[CHOOSE i \in 1..Len(o) : o[i].k = k].v

\* mutant of Put: an existing key is deleted and inserted again at the end
Put_MoveToEnd(o, k, v) ==
  Append(SelectSeq(o, LAMBDA e : e.k # k), [k |-> k, v |-> v])

\* o[k] = v: a new key is appended, an existing key keeps its place
Put(o, k, v) ==
  IF HasOwn(o, k) THEN [i \in 1..Len(o) |-> IF o[i].k = k THEN [k |-> k, v |-> v] ELSE o[i]]
  ELSE Append(o, [k |-> k, v |-> v])

\* the value of a key that is a canonical array index ("0", "1", "7", ...), else -1
ArrayIndex(k) ==
  CASE k = "0" -> 0
    [] k = "1" -> 1
    [] k = "7" -> 7
    [] k = "10" -> 10
    [] k = "20" -> 20
    [] OTHER -> -1

RECURSIVE SortedIndexKeys(_)
SortedIndexKeys(ks) ==
  IF ks = {} THEN <<>>
  ELSE LET m == CHOOSE x \in ks : \A y \in ks : ArrayIndex(x) <= ArrayIndex(y)
       IN <<m>> \o SortedIndexKeys(ks \ {m})

RECURSIVE StringKeys(_)
StringKeys(o) ==
  IF o = <<>> THEN <<>>
  ELSE (IF ArrayIndex(Head(o).k) < 0 THEN <<Head(o).k>> ELSE <<>>) \o StringKeys(Tail(o))

\* Object.keys(o): array-index keys in ascending numeric order, then the other
\* keys in insertion order (OrdinaryOwnPropertyKeys)
ObjectKeys(o) ==
  SortedIndexKeys({o[i].k : i \in {j \in 1..Len(o) : ArrayIndex(o[j].k) >= 0}}) \o StringKeys(o)

\* Object.entries(o)
ObjectEntries(o) ==
  LET ks == ObjectKeys(o) IN [i \in 1..Len(ks) |-> [k |-> ks[i], v |-> GetOwn(o, ks[i])]]

\* the properties every plain object inherits from Object.prototype
InheritedFunctions ==
  {"constructor", "toString", "toLocaleString", "valueOf", "hasOwnProperty",
   "isPrototypeOf", "propertyIsEnumerable"}

\* String(f) of the inherited function named k
FunctionSource(k) ==
  IF k = "constructor" THEN "function Object() { [native code] }"
  ELSE "function " \o k \o "() { [native code] }"

\* o[k] on a plain object holding JavaScript values: own property, else the
\* prototype's, else undefined
Get(o, k) ==
  IF HasOwn(o, k) THEN GetOwn(o, k)
  ELSE IF k \in InheritedFunctions THEN Obj(FunctionSource(k))
  ELSE IF k = "__proto__" THEN Obj("[object Object]")
  ELSE Undefined

\* ------------------------------------------------------------------------
\* Papa.parse(csvData, {header, skipEmptyLines, dynamicTyping, transformHeader})
\* on a tokenised text [header: fields of the first line, lines: fields of
\* each later line]; no line of the modelled inputs has more fields than the
\* header (no __parsed_extra)
\* ------------------------------------------------------------------------
transformHeader(header) == toLowerCase(replaceSpaces(trim(header)))

\* Papa's parseDynamic
parseDynamic(value) ==
  IF testFloat(value) THEN Num(parseFloat(value))
  ELSE IF value = "" THEN Null
  ELSE Str(value)

\* skipEmptyLines: true drops the lines that are one empty field
testEmptyLine(line) == Len(line) = 1 /\ line[1] = ""

RECURSIVE BuildRow(_, _, _)
BuildRow(fields, line, j) ==
  IF j = 0 THEN EmptyObject
  ELSE Put(BuildRow(fields, line, j - 1), fields[j], parseDynamic(line[j]))

PapaParseData(csv) ==
  LET fields == [j \in 1..Len(csv.header) |-> transformHeader(csv.header[j])]
      kept == SelectSeq(csv.lines, LAMBDA l : ~testEmptyLine(l))
  IN [i \in 1..Len(kept) |-> BuildRow(fields, kept[i], Len(kept[i]))]

\* parseResult.errors: one FieldMismatch/TooFewFields per short line
PapaParseErrors(csv) ==
  LET kept == SelectSeq(csv.lines, LAMBDA l : ~testEmptyLine(l))
  IN Cardinality({i \in 1..Len(kept) : Len(kept[i]) < Len(csv.header)})

\* ------------------------------------------------------------------------
\* useDietData: tables and helpers
\* ------------------------------------------------------------------------
Entry(k, v) == [k |-> k, v |-> v]

dietGroupMapping ==
  <<Entry("vegan", Str("vegan")), Entry("veggie", Str("vegetarian")),
    Entry("fish", Str("fish")), Entry("meat", Str("low_meat")),
    Entry("meat50", Str("medium_meat")), Entry("meat100", Str("high_meat"))>>

genderMapping == <<Entry("female", Str("Female")), Entry("male", Str("Male"))>>

ageGroupMapping ==
  <<Entry("20-29", Str("20-29")), Entry("30-39", Str("30-39")),
    Entry("40-49", Str("40-49")), Entry("50-59", Str("50-59")),
    Entry("60-69", Str("60-69")), Entry("70-79", Str("70-79"))>>

\* the six indicator fields of DietData, in declaration order
Indicators ==
  <<"ghgs", "landUse", "waterScarcity", "eutrophication", "acidification", "mean_bio">>

IndicatorSet == {Indicators[i] : i \in 1..Len(Indicators)}

\* mutant of cleanString: the lower-casing is left out
cleanString_NoLowerCase(str) ==
  IF ~Truthy(str) THEN "" ELSE trim(toString(str))

cleanString(str) ==
  IF ~Truthy(str) THEN "" ELSE toLowerCase(trim(toString(str)))

safeParseFloat(value) ==
  IF value.t = "number" THEN value.n
  ELSE IF ~Truthy(value) THEN Zero
  ELSE LET cleanValue == replaceCommas(trim(toString(value)))
           parsed == parseFloat(cleanValue)
       IN IF Truthy(Num(parsed)) THEN parsed ELSE Zero

\* Object.entries(columnMap)
columnMap ==
  <<Entry("dietGroup", <<"diet_group", "dietgroup", "diet">>),
    Entry("gender", <<"sex", "gender">>),
    Entry("ageGroup", <<"age_group", "agegroup", "age">>),
    Entry("ghgs", <<"mean_ghgs", "ghgs", "greenhouse_gas">>),
    Entry("landUse", <<"mean_land", "land", "land_use">>),
    Entry("waterScarcity", <<"mean_watscar", "water", "water_scarcity">>),
    Entry("eutrophication", <<"mean_eut", "eutrophication">>),
    Entry("acidification", <<"mean_acid", "acidification">>),
    Entry("mean_bio", <<"mean_bio", "biodiversity", "bio">>)>>

includes(arr, x) == \E i \in 1..Len(arr) : arr[i] = x

\* availableColumns.find(column => possibleNames.includes(column.toLowerCase().trim())):
\* the first matching column, undefined when there is none
FindColumn(availableColumns, possibleNames) ==
  LET hits == {i \in 1..Len(availableColumns) :
                 includes(possibleNames, trim(toLowerCase(availableColumns[i])))}
  IN IF hits = {} THEN Undefined
     ELSE Str(availableColumns[CHOOSE i \in hits : \A j \in hits : i <= j])

RECURSIVE MapColumns(_, _, _)
MapColumns(availableColumns, n, acc) ==
  IF n > Len(columnMap) THEN acc
  ELSE LET foundColumn == FindColumn(availableColumns, columnMap[n].v)
       IN MapColumns(availableColumns, n + 1,
            IF Truthy(foundColumn) THEN Put(acc, columnMap[n].k, foundColumn) ELSE acc)

\* actualColumns after the reconciliation block
ActualColumns(data) ==
  IF Len(data) > 0 THEN MapColumns(ObjectKeys(data[1]), 1, EmptyObject) ELSE EmptyObject

\* row[actualColumns.<targetField>]: the key is ToPropertyKey of the mapped
\* column, "undefined" for an unmapped field
RowValue(row, actualColumns, targetField) ==
  Get(row, toString(Get(actualColumns, targetField)))

\* dietGroupMapping[dietGroup] || dietGroup, as the property key it is used as
StandardDietGroup(dietGroup) ==
  LET m == Get(dietGroupMapping, dietGroup)
  IN toString(IF Truthy(m) THEN m ELSE Str(dietGroup))

\* gender ? (genderMapping[gender] || 'Unknown') : 'Unknown'
StandardGender(gender) ==
  LET m == Get(genderMapping, gender)
  IN toString(IF gender # "" THEN (IF Truthy(m) THEN m ELSE Str("Unknown")) ELSE Str("Unknown"))

\* ageGroup ? (ageGroupMapping[ageGroup] || 'Unknown') : 'Unknown'
StandardAgeGroup(ageGroup) ==
  LET m == Get(ageGroupMapping, ageGroup)
  IN toString(IF ageGroup # "" THEN (IF Truthy(m) THEN m ELSE Str("Unknown")) ELSE Str("Unknown"))

\* a freshly initialised bucket: one empty array per indicator
EmptyGroup == [i \in IndicatorSet |-> <<>>]

\* mutant of PushValues: a value of 0 is not pushed
PushValues_SkipZero(group, vals) ==
  [i \in IndicatorSet |-> IF vals[i] # Zero THEN Append(group[i], vals[i]) ELSE group[i]]

\* if (!isNaN(x)) group.<indicator>.push(x), for the six indicators
PushValues(group, vals) ==
  [i \in IndicatorSet |-> IF ~IsNaN(vals[i]) THEN Append(group[i], vals[i]) ELSE group[i]]

\* initialise map[key] if absent, then push the row's values.  The keys are
\* never names inherited from Object.prototype (see LabelsAreOwnKeys), so
\* !map[key] is the own-property test.
AddToGroup(map, key, vals) ==
  Put(map, key, PushValues(IF HasOwn(map, key) THEN GetOwn(map, key) ELSE EmptyGroup, vals))

AddToNested(map, outer, inner, vals) ==
  Put(map, outer, AddToGroup(IF HasOwn(map, outer) THEN GetOwn(map, outer) ELSE EmptyObject,
                             inner, vals))

EmptyMaps ==
  [dietGroupsMap |-> EmptyObject, genderGroupsMap |-> EmptyObject,
   ageGroupsMap |-> EmptyObject, dietGenderGroupsMap |-> EmptyObject,
   dietAgeGroupsMap |-> EmptyObject]

\* mutant of ProcessRow: the diet-group check comes after the gender bucket
\* has been initialised and filled
ProcessRow_LateReturn(maps, row, actualColumns) ==
  LET dietGroup == cleanString(RowValue(row, actualColumns, "dietGroup"))
      gender == cleanString(RowValue(row, actualColumns, "gender"))
      ageGroup == cleanString(RowValue(row, actualColumns, "ageGroup"))
      standardGender == StandardGender(gender)
      standardAgeGroup == StandardAgeGroup(ageGroup)
      vals == [i \in IndicatorSet |-> safeParseFloat(RowValue(row, actualColumns, i))]
      withGender == [maps EXCEPT !.genderGroupsMap = AddToGroup(@, standardGender, vals)]
  IN IF dietGroup = "" THEN withGender
     ELSE LET standardDietGroup == StandardDietGroup(dietGroup)
          IN [dietGroupsMap |-> AddToGroup(maps.dietGroupsMap, standardDietGroup, vals),
              genderGroupsMap |-> withGender.genderGroupsMap,
              ageGroupsMap |-> AddToGroup(maps.ageGroupsMap, standardAgeGroup, vals),
              dietGenderGroupsMap |->
                AddToNested(maps.dietGenderGroupsMap, standardDietGroup, standardGender, vals),
              dietAgeGroupsMap |->
                AddToNested(maps.dietAgeGroupsMap, standardDietGroup, standardAgeGroup, vals)]

\* the body of data.forEach(row => ...)
ProcessRow(maps, row, actualColumns) ==
  LET dietGroup == cleanString(RowValue(row, actualColumns, "dietGroup"))
      gender == cleanString(RowValue(row, actualColumns, "gender"))
      ageGroup == cleanString(RowValue(row, actualColumns, "ageGroup"))
  IN IF dietGroup = "" THEN maps
     ELSE LET standardDietGroup == StandardDietGroup(dietGroup)
              standardGender == StandardGender(gender)
              standardAgeGroup == StandardAgeGroup(ageGroup)
              vals == [i \in IndicatorSet |-> safeParseFloat(RowValue(row, actualColumns, i))]
          IN [dietGroupsMap |-> AddToGroup(maps.dietGroupsMap, standardDietGroup, vals),
              genderGroupsMap |-> AddToGroup(maps.genderGroupsMap, standardGender, vals),
              ageGroupsMap |-> AddToGroup(maps.ageGroupsMap, standardAgeGroup, vals),
              dietGenderGroupsMap |->
                AddToNested(maps.dietGenderGroupsMap, standardDietGroup, standardGender, vals),
              dietAgeGroupsMap |->
                AddToNested(maps.dietAgeGroupsMap, standardDietGroup, standardAgeGroup, vals)]

RECURSIVE Accumulate(_, _, _)
Accumulate(data, n, actualColumns) ==
  IF n = 0 THEN EmptyMaps
  ELSE ProcessRow(Accumulate(data, n - 1, actualColumns), data[n], actualColumns)

\* the five accumulator maps after data.forEach
GroupMaps(data) == Accumulate(data, Len(data), ActualColumns(data))

\* arr.reduce((sum, val) => sum + val, 0)
RECURSIVE ReduceSum(_, _)
ReduceSum(arr, n) == IF n = 0 THEN Zero ELSE NumAdd(ReduceSum(arr, n - 1), arr[n])

\* arr.length > 0 ? arr.reduce(...) / arr.length : 0
Average(arr) ==
  IF Len(arr) > 0 THEN NumDiv(ReduceSum(arr, Len(arr)), Fin(Len(arr), 1)) ELSE Zero

\* the object pushed to processedData
Summary(dietGroup, gender, ageGroup, groupData) ==
  [dietGroup |-> dietGroup, gender |-> gender, ageGroup |-> ageGroup,
   ghgs |-> Average(groupData.ghgs),
   landUse |-> Average(groupData.landUse),
   waterScarcity |-> Average(groupData.waterScarcity),
   eutrophication |-> Average(groupData.eutrophication),
   acidification |-> Average(groupData.acidification),
   mean_bio |-> Average(groupData.mean_bio)]

DietSummaries(maps) ==
  LET e == ObjectEntries(maps.dietGroupsMap)
  IN [i \in 1..Len(e) |-> Summary(e[i].k, "All", "All", e[i].v)]

GenderSummaries(maps) ==
  LET e == ObjectEntries(maps.genderGroupsMap)
  IN [i \in 1..Len(e) |-> Summary("All", e[i].k, "All", e[i].v)]

AgeSummaries(maps) ==
  LET e == ObjectEntries(maps.ageGroupsMap)
  IN [i \in 1..Len(e) |-> Summary("All", "All", e[i].k, e[i].v)]

RECURSIVE DietGenderFrom(_, _)
DietGenderFrom(outer, n) ==
  IF n > Len(outer) THEN <<>>
  ELSE LET e == ObjectEntries(outer[n].v)
       IN [i \in 1..Len(e) |-> Summary(outer[n].k, e[i].k, "All", e[i].v)]
          \o DietGenderFrom(outer, n + 1)

DietGenderSummaries(maps) == DietGenderFrom(ObjectEntries(maps.dietGenderGroupsMap), 1)

RECURSIVE DietAgeFrom(_, _)
DietAgeFrom(outer, n) ==
  IF n > Len(outer) THEN <<>>
  ELSE LET e == ObjectEntries(outer[n].v)
       IN [i \in 1..Len(e) |-> Summary(outer[n].k, "All", e[i].k, e[i].v)]
          \o DietAgeFrom(outer, n + 1)

DietAgeSummaries(maps) == DietAgeFrom(ObjectEntries(maps.dietAgeGroupsMap), 1)

\* mutant of ProcessedData: the diet x gender block is left out
ProcessedData_NoDietGender(data) ==
  LET maps == GroupMaps(data)
  IN DietSummaries(maps) \o GenderSummaries(maps) \o AgeSummaries(maps)
     \o DietAgeSummaries(maps)

\* processedData as assigned to dietData.value
ProcessedData(data) ==
  LET maps == GroupMaps(data)
  IN DietSummaries(maps) \o GenderSummaries(maps) \o AgeSummaries(maps)
     \o DietGenderSummaries(maps) \o DietAgeSummaries(maps)

\* mutant of ArrayFromSet: no de-duplication
ArrayFromSet_KeepAll(values) == values

\* Array.from(new Set(values)): first occurrences, in order
RECURSIVE ArrayFromSet(_)
ArrayFromSet(values) ==
  IF values = <<>> THEN <<>>
  ELSE LET rest == ArrayFromSet(SubSeq(values, 1, Len(values) - 1))
           last == values[Len(values)]
       IN IF includes(rest, last) THEN rest ELSE Append(rest, last)

\* the computed label lists
dietGroups(dietData) == ArrayFromSet([i \in 1..Len(dietData) |-> dietData[i].dietGroup])

genderGroups(dietData) == ArrayFromSet([i \in 1..Len(dietData) |-> dietData[i].gender])

ageGroups(dietData) == ArrayFromSet([i \in 1..Len(dietData) |-> dietData[i].ageGroup])

\* ------------------------------------------------------------------------
\* DietStackedBar3D: filtering and normalisation.  The positions of the
\* points on the x and y axes (the sort of the labels) are not modelled.
\* ------------------------------------------------------------------------
Indicator(value, weight) == [value |-> value, weight |-> weight]

\* value and weight of the indicators table
indicators ==
  <<Indicator("ghgs", Fin(1, 1)), Indicator("landUse", Fin(1, 2)),
    Indicator("waterScarcity", Fin(3, 100)), Indicator("eutrophication", Fin(1, 5)),
    Indicator("acidification", Fin(1, 5)), Indicator("mean_bio", Fin(2, 5))>>

filteredData(data) ==
  SelectSeq(data, LAMBDA item :
    item.dietGroup # "All" /\ item.ageGroup # "All" /\ item.gender = "All")

uniqueDietGroups(filtered) ==
  ArrayFromSet([i \in 1..Len(filtered) |-> filtered[i].dietGroup])

uniqueAgeGroups(filtered) ==
  ArrayFromSet([i \in 1..Len(filtered) |-> filtered[i].ageGroup])

\* maxValues[indicator.value]
maxValues(filtered, value) ==
  MathMax([i \in 1..Len(filtered) |-> filtered[i][value]])

\* mutant of normalizedValue: the weight is left out
normalizedValue_NoWeight(filtered, item, indicator) ==
  NumDiv(item[indicator.value], maxValues(filtered, indicator.value))

\* (rawValue / maxValues[indicator.value]) * indicator.weight
normalizedValue(filtered, item, indicator) ==
  NumMul(NumDiv(item[indicator.value], maxValues(filtered, indicator.value)), indicator.weight)

\* combinedData[dietGroup][ageGroup][indicator.value] after the fill loop:
\* the value written by the last matching item, undefined if there is none
combinedData(filtered, dietGroup, ageGroup, indicator) ==
  LET hits == {i \in 1..Len(filtered) :
                 filtered[i].dietGroup = dietGroup /\ filtered[i].ageGroup = ageGroup}
  IN IF hits = {} THEN Undefined
     ELSE Num(normalizedValue(filtered,
                filtered[CHOOSE i \in hits : \A j \in hits : j <= i], indicator))

\* mutant of seriesValue: the fallback to 0 is left out
seriesValue_NoFallback(filtered, dietGroup, ageGroup, indicator) ==
  combinedData(filtered, dietGroup, ageGroup, indicator).n

\* combinedData[dietGroup]?.[ageGroup]?.[indicator.value] || 0
seriesValue(filtered, dietGroup, ageGroup, indicator) ==
  LET v == combinedData(filtered, dietGroup, ageGroup, indicator)
  IN IF Truthy(v) THEN v.n ELSE Zero

\* the raw value of the first matching item, 0 if there is none
seriesRawValue(filtered, dietGroup, ageGroup, indicator) ==
  LET hits == {i \in 1..Len(filtered) :
                 filtered[i].dietGroup = dietGroup /\ filtered[i].ageGroup = ageGroup}
  IN IF hits = {} THEN Zero
     ELSE filtered[CHOOSE i \in hits : \A j \in hits : i <= j][indicator.value]

\* the data points of all series: one per indicator, diet group and age group
seriesData(data) ==
  LET filtered == filteredData(data)
      diets == uniqueDietGroups(filtered)
      ages == uniqueAgeGroups(filtered)
  IN {[indicator |-> indicators[n].value, weight |-> indicators[n].weight,
       dietGroup |-> diets[x], ageGroup |-> ages[y],
       normalizedValue |-> seriesValue(filtered, diets[x], ages[y], indicators[n]),
       rawValue |-> seriesRawValue(filtered, diets[x], ages[y], indicators[n])] :
        n \in 1..Len(indicators), x \in 1..Len(diets), y \in 1..Len(ages)}

\* ------------------------------------------------------------------------
\* Inputs: the tokenised CSV texts a fetch may deliver
\* ------------------------------------------------------------------------
Csv(header, lines) == [header |-> header, lines |-> lines]

SeqsUpTo(S, n) == UNION {[1..m -> S] : m \in 0..n}

CanonicalHeader ==
  <<"diet_group", "sex", "age_group", "mean_ghgs", "mean_land", "mean_watscar",
    "mean_eut", "mean_acid", "mean_bio">>

AllSix(v) == <<v, v, v, v, v, v>>

\* value cells: numbers, zero, negative, empty, unparseable, decimal comma
ValueLines ==
  {<<"vegan", "female", "20-29">> \o v :
     v \in {AllSix("10"), AllSix("20"), AllSix("0"), AllSix(""),
            <<"10", "", "abc", "2,5", "0", "20">>}}
  \cup {<<" fish ", "Male", "30-39">> \o v :
     v \in {AllSix("10"), AllSix("0"), AllSix("-5")}}

\* label cells: mapped, unmapped, numeric-looking, blank, inherited names,
\* the sentinel's spelling, and short lines
LabelLines ==
  {<<"vegan", "female", "20-29">> \o AllSix("10"),
   <<"vegan", "constructor", "old">> \o AllSix("10"),
   <<"Veggie", "x", "">> \o AllSix("10"),
   <<"7", "female", "20-29">> \o AllSix("10"),
   <<"1", "x", "">> \o AllSix("10"),
   <<"", "female", "20-29">> \o AllSix("10"),
   <<"  ", "female", "20-29">> \o AllSix("10"),
   <<"All", "All", "All">> \o AllSix("10"),
   <<"  ">>,
   <<"vegan", "female">>}

\* header variants, each with lines of its own layout
HeaderFiles ==
  {Csv(<<" Diet ", "Diet Group", "Gender", "GHGs">>, ls) :
     ls \in SeqsUpTo({<<"vegan", "Veggie", "female", "10">>, <<"7", "vegan", "Male", "20">>},
                     MaxRows)}
  \cup {Csv(h, ls) :
     h \in {<<"undefined", "sex", "mean_ghgs">>, <<"grouping", "sex", "mean_ghgs">>,
            <<"7", "diet", "1">>},
     ls \in SeqsUpTo({<<"vegan", "female", "10">>, <<"Veggie", "x", "20">>}, MaxRows)}
  \cup {Csv(<<"diet_group", "mean_ghgs">>, ls) :
     ls \in SeqsUpTo({<<"vegan", "10">>, <<"", "20">>}, MaxRows)}

DataFiles ==
  {Csv(CanonicalHeader, ls) : ls \in SeqsUpTo(ValueLines, MaxRows)}
  \cup {Csv(CanonicalHeader, ls) : ls \in SeqsUpTo(LabelLines, MaxRows)}
  \cup HeaderFiles

\* the files served while loads overlap
ServedFiles ==
  LET a == <<"vegan", "female", "20-29">> \o AllSix("10")
      b == <<"Veggie", "x", "">> \o AllSix("")
  IN {Csv(CanonicalHeader, ls) : ls \in {<<>>, <<a>>, <<b>>, <<a, b>>}}

\* ------------------------------------------------------------------------
\* The composable's state and the steps of loadData
\* ------------------------------------------------------------------------
\* loading, error, rawData, dietData: the refs of the composable.
\* pc, response, csvData: each invocation's position and its locals (the
\* status of its response, 0 before there is one; its csvData, <<>> before
\* it is assigned).  writes: the invocations that assigned dietData, in order.
VARIABLES loading, error, rawData, dietData, pc, response, csvData, writes

vars == <<loading, error, rawData, dietData, pc, response, csvData, writes>>

Calls == 1..MaxLoads

Init ==
  /\ loading = TRUE
  /\ error = Null
  /\ rawData = <<>>
  /\ dietData = <<>>
  /\ pc = [i \in Calls |-> "idle"]
  /\ response = [i \in Calls |-> 0]
  /\ csvData = [i \in Calls |-> <<>>]
  /\ writes = <<>>

\* loadData() up to the first await
LoadData(i) ==
  /\ pc[i] = "idle"
  /\ \A j \in Calls : j < i => pc[j] # "idle"
  /\ loading' = TRUE
  /\ error' = Null
  /\ pc' = [pc EXCEPT ![i] = "fetch"]
  /\ UNCHANGED <<rawData, dietData, response, csvData, writes>>

\* mutant of Fail: the finally block is left out
Fail_KeepLoading(i, message) ==
  /\ error' = Str(message)
  /\ pc' = [pc EXCEPT ![i] = "done"]
  /\ UNCHANGED <<loading, rawData, dietData, csvData, writes>>

\* catch (err) { error.value = err instanceof Error ? err.message : '' }
\* finally { loading.value = false }
Fail(i, message) ==
  /\ error' = Str(message)
  /\ loading' = FALSE
  /\ pc' = [pc EXCEPT ![i] = "done"]
  /\ UNCHANGED <<rawData, dietData, csvData, writes>>

\* the message of a rejection: of an Error, or '' for a value that is none
RejectMessages == {"Failed to fetch", ""}

\* fetch() rejects
FetchRejects(i, message) ==
  /\ pc[i] = "fetch"
  /\ Fail(i, message)
  /\ UNCHANGED response

\* response.ok
ok(status) == status >= 200 /\ status <= 299

\* mutant of FetchResolves: response.ok is not looked at
FetchResolves_IgnoreStatus(i, status) ==
  /\ pc[i] = "fetch"
  /\ response' = [response EXCEPT ![i] = status]
  /\ pc' = [pc EXCEPT ![i] = "text"]
  /\ UNCHANGED <<loading, error, rawData, dietData, csvData, writes>>

\* fetch() resolves with a response of the given status
FetchResolves(i, status) ==
  /\ pc[i] = "fetch"
  /\ response' = [response EXCEPT ![i] = status]
  /\ IF ok(status)
     THEN /\ pc' = [pc EXCEPT ![i] = "text"]
          /\ UNCHANGED <<loading, error, rawData, dietData, csvData, writes>>
     ELSE Fail(i, toString(Num(Fin(status, 1))))

\* response.text() rejects
TextRejects(i, message) ==
  /\ pc[i] = "text"
  /\ Fail(i, message)
  /\ UNCHANGED response

\* mutant of TextResolves: parser errors are thrown
TextResolves_AbortOnParseErrors(i, csv) ==
  /\ pc[i] = "text"
  /\ csvData' = [csvData EXCEPT ![i] = <<csv>>]
  /\ IF PapaParseErrors(csv) > 0
     THEN /\ error' = Str("parse error")
          /\ UNCHANGED <<rawData, dietData, writes>>
     ELSE /\ rawData' = PapaParseData(csv)
          /\ dietData' = ProcessedData(PapaParseData(csv))
          /\ writes' = Append(writes, i)
          /\ UNCHANGED error
  /\ loading' = FALSE
  /\ pc' = [pc EXCEPT ![i] = "done"]
  /\ UNCHANGED response

\* mutant of TextResolves: the summaries are appended to the shared output
TextResolves_Merge(i, csv) ==
  /\ pc[i] = "text"
  /\ csvData' = [csvData EXCEPT ![i] = <<csv>>]
  /\ rawData' = PapaParseData(csv)
  /\ dietData' = dietData \o ProcessedData(PapaParseData(csv))
  /\ writes' = Append(writes, i)
  /\ loading' = FALSE
  /\ pc' = [pc EXCEPT ![i] = "done"]
  /\ UNCHANGED <<error, response>>

\* mutant of TextResolves: rawData is not assigned
TextResolves_StaleRawData(i, csv) ==
  /\ pc[i] = "text"
  /\ csvData' = [csvData EXCEPT ![i] = <<csv>>]
  /\ dietData' = ProcessedData(PapaParseData(csv))
  /\ writes' = Append(writes, i)
  /\ loading' = FALSE
  /\ pc' = [pc EXCEPT ![i] = "done"]
  /\ UNCHANGED <<error, response, rawData>>

\* response.text() resolves: parse, reconcile, aggregate, publish
TextResolves(i, csv) ==
  /\ pc[i] = "text"
  /\ csvData' = [csvData EXCEPT ![i] = <<csv>>]
  /\ LET data == PapaParseData(csv)
     IN /\ rawData' = data
        /\ dietData' = ProcessedData(data)
  /\ writes' = Append(writes, i)
  /\ loading' = FALSE
  /\ pc' = [pc EXCEPT ![i] = "done"]
  /\ UNCHANGED <<error, response>>

Statuses == {200, 404, 500}

Next ==
  \E i \in Calls :
    \/ LoadData(i)
    \/ \E message \in RejectMessages : FetchRejects(i, message)
    \/ \E status \in Statuses : FetchResolves(i, status)
    \/ \E message \in RejectMessages : TextRejects(i, message)
    \/ \E csv \in ServedFiles : TextResolves(i, csv)

Spec == Init /\ [][Next]_vars

\* the awaited promise of invocation i settles and loadData resumes
Settles(i) ==
  \/ \E message \in RejectMessages : FetchRejects(i, message)
  \/ \E status \in Statuses : FetchResolves(i, status)
  \/ \E message \in RejectMessages : TextRejects(i, message)
  \/ \E csv \in ServedFiles : TextResolves(i, csv)

\* overlapping loads whose requests all settle
SpecLive == Spec /\ \A i \in Calls : WF_vars(Settles(i))

\* no invocation is between its start and its completion
Quiet == \A j \in Calls : pc[j] \in {"idle", "done"}

\* reloads that never overlap: loadData is called only when no call is pending
NextSeq ==
  \E i \in Calls :
    \/ Quiet /\ LoadData(i)
    \/ \E message \in RejectMessages : FetchRejects(i, message)
    \/ \E status \in Statuses : FetchResolves(i, status)
    \/ \E message \in RejectMessages : TextRejects(i, message)
    \/ \E csv \in ServedFiles : TextResolves(i, csv)

SpecSeq == Init /\ [][NextSeq]_vars

\* one load over the full input universe
NextData ==
  \/ LoadData(1)
  \/ \E message \in RejectMessages : FetchRejects(1, message)
  \/ \E status \in Statuses : FetchResolves(1, status)
  \/ \E message \in RejectMessages : TextRejects(1, message)
  \/ \E csv \in DataFiles : TextResolves(1, csv)

SpecData == Init /\ [][NextData]_vars

\* ------------------------------------------------------------------------
\* Vocabulary of the properties: the rows behind a summary record
\* ------------------------------------------------------------------------
\* the retained rows of rawData (those that pass the diet-group check), in
\* input order, each with its canonical labels and its raw indicator cells
Rows ==
  LET cols == ActualColumns(rawData)
      kept == SelectSeq(rawData, LAMBDA row :
                cleanString(RowValue(row, cols, "dietGroup")) # "")
  IN [i \in 1..Len(kept) |->
       [dietGroup |-> StandardDietGroup(cleanString(RowValue(kept[i], cols, "dietGroup"))),
        gender |-> StandardGender(cleanString(RowValue(kept[i], cols, "gender"))),
        ageGroup |-> StandardAgeGroup(cleanString(RowValue(kept[i], cols, "ageGroup"))),
        genderCode |-> cleanString(RowValue(kept[i], cols, "gender")),
        ageCode |-> cleanString(RowValue(kept[i], cols, "ageGroup")),
        dietCode |-> cleanString(RowValue(kept[i], cols, "dietGroup")),
        raw |-> [ind \in IndicatorSet |-> RowValue(kept[i], cols, ind)]]]

\* the grouping kind of a record: which dimensions are not the sentinel
Kind(rec) == <<rec.dietGroup # "All", rec.gender # "All", rec.ageGroup # "All">>

KindAll == <<FALSE, FALSE, FALSE>>

KindDiet == <<TRUE, FALSE, FALSE>>

KindGender == <<FALSE, TRUE, FALSE>>

KindAge == <<FALSE, FALSE, TRUE>>

KindDietGender == <<TRUE, TRUE, FALSE>>

KindDietAge == <<TRUE, FALSE, TRUE>>

FiveKinds == {KindDiet, KindGender, KindAge, KindDietGender, KindDietAge}

\* the records of one kind, in output order
OfKind(data, kind) == SelectSeq(data, LAMBDA rec : Kind(rec) = kind)

\* a retained row belongs to the bucket of a record
Matches(rec, row) ==
  /\ rec.dietGroup = "All" \/ rec.dietGroup = row.dietGroup
  /\ rec.gender = "All" \/ rec.gender = row.gender
  /\ rec.ageGroup = "All" \/ rec.ageGroup = row.ageGroup

Members(rec, rows) == SelectSeq(rows, LAMBDA row : Matches(rec, row))

RECURSIVE SumSeq(_)
SumSeq(values) ==
  IF values = <<>> THEN Zero ELSE NumAdd(Head(values), SumSeq(Tail(values)))

MeanOf(values) ==
  IF values = <<>> THEN Zero ELSE NumDiv(SumSeq(values), Fin(Len(values), 1))

\* a raw cell that is non-empty and parseable as a number
Present(v) ==
  \/ v.t = "number"
  \/ v.t = "string" /\ ~IsNaN(parseFloat(replaceCommas(trim(v.s))))

\* the coerced values of the rows whose raw cell for the indicator is present
PresentValues(rows, ind) ==
  LET present == SelectSeq(rows, LAMBDA row : Present(row.raw[ind]))
  IN [i \in 1..Len(present) |-> safeParseFloat(present[i].raw[ind])]

\* C1: for every bucket of every kind and every indicator, the reported mean
\* is the sum of the coerced values divided by the number of rows whose raw
\* value for that indicator was non-empty and parseable (missing or
\* unparseable values do not count in the denominator).
C1_MissingExcludedFromDenominator ==
  LET rows == Rows
  IN \A k \in 1..Len(dietData) :
       LET members == Members(dietData[k], rows)
       IN \A ind \in IndicatorSet :
            dietData[k][ind] = MeanOf(PresentValues(members, ind))

\* the coerced values of all the given rows for an indicator
AllValues(rows, ind) == [i \in 1..Len(rows) |-> safeParseFloat(rows[i].raw[ind])]

\* C2 (as stated): whenever a row is retained, the output holds a record of
\* kind All (all three dimensions "All") with the means over all retained rows.
C2_AllKindPresent ==
  LET rows == Rows
  IN rows # <<>> =>
       \E k \in 1..Len(dietData) :
         /\ Kind(dietData[k]) = KindAll
         /\ \A ind \in IndicatorSet : dietData[k][ind] = MeanOf(AllValues(rows, ind))

\* C2 (amended): whenever a row is retained the output holds records of
\* exactly the five kinds DietGroup, Gender, AgeGroup, (DietGroup,Gender) and
\* (DietGroup,AgeGroup); it never holds a record of kind All, and it is empty
\* when no row is retained.
C2_FiveKindsNoAll ==
  LET rows == Rows
  IN /\ rows # <<>> => {Kind(dietData[k]) : k \in 1..Len(dietData)} = FiveKinds
     /\ rows = <<>> => dietData = <<>>

C2_Witness ==
  /\ pc[1] = "done"
  /\ Len(Rows) >= 2
  /\ {Kind(dietData[k]) : k \in 1..Len(dietData)} = FiveKinds

\* ------------------------------------------------------------------------
\* Emission order
\* ------------------------------------------------------------------------
Key(rec) == <<rec.dietGroup, rec.gender, rec.ageGroup>>

\* the key of a retained row under a kind
RowKey(row, kind) ==
  <<IF kind[1] THEN row.dietGroup ELSE "All",
    IF kind[2] THEN row.gender ELSE "All",
    IF kind[3] THEN row.ageGroup ELSE "All">>

KeysOfKind(data, kind) ==
  LET recs == OfKind(data, kind) IN [i \in 1..Len(recs) |-> Key(recs[i])]

RowKeys(rows, kind) == [i \in 1..Len(rows) |-> RowKey(rows[i], kind)]

FirstIndex(seq, x) == CHOOSE i \in 1..Len(seq) : seq[i] = x /\ \A j \in 1..(i - 1) : seq[j] # x

\* out lists the distinct elements of seq, each once
ListsDistinct(out, seq) ==
  /\ \A i, j \in 1..Len(out) : i # j => out[i] # out[j]
  /\ {out[i] : i \in 1..Len(out)} = {seq[i] : i \in 1..Len(seq)}

\* out lists the distinct elements of seq in order of first occurrence
IsFirstSeenOrder(out, seq) ==
  /\ ListsDistinct(out, seq)
  /\ \A i, j \in 1..Len(out) : i < j => FirstIndex(seq, out[i]) < FirstIndex(seq, out[j])

\* C3 (as stated): within each kind the records are emitted in the order in
\* which their keys (pairs for the composite kinds) were first encountered
\* in the input rows, whatever the labels.
C3_FirstEncounterOrder ==
  LET rows == Rows
  IN \A kind \in FiveKinds :
       IsFirstSeenOrder(KeysOfKind(dietData, kind), RowKeys(rows, kind))

\* diet labels as Object.entries lists them: array-index labels first, in
\* ascending numeric order, then the others in order of first occurrence
IsDietOrder(out, seq) ==
  /\ ListsDistinct(out, seq)
  /\ \A i, j \in 1..Len(out) : i < j =>
       LET a == ArrayIndex(out[i][1])
           b == ArrayIndex(out[j][1])
       IN IF a >= 0 /\ b >= 0 THEN a < b
          ELSE IF a < 0 /\ b < 0 THEN FirstIndex(seq, out[i]) < FirstIndex(seq, out[j])
          ELSE a >= 0

\* composite records: grouped by diet group in the order of the diet kind,
\* and within one diet group in order of first occurrence of the pair
IsGroupedOrder(out, seq, dietKeys) ==
  /\ ListsDistinct(out, seq)
  /\ \A i, j \in 1..Len(out) : i < j =>
       IF out[i][1] = out[j][1]
       THEN FirstIndex(seq, out[i]) < FirstIndex(seq, out[j])
       ELSE FirstIndex(dietKeys, <<out[i][1], "All", "All">>)
              < FirstIndex(dietKeys, <<out[j][1], "All", "All">>)

\* C3 (amended): gender and age-group records follow first-encounter order;
\* diet-group records list array-index labels ("1", "7") first in ascending
\* numeric order and then the other labels in first-encounter order; the
\* composite records are grouped by diet group in the diet kind's order, and
\* within a diet group follow first-encounter order of the second label.
C3_EmissionOrder ==
  LET rows == Rows
      dietKeys == KeysOfKind(dietData, KindDiet)
  IN /\ IsFirstSeenOrder(KeysOfKind(dietData, KindGender), RowKeys(rows, KindGender))
     /\ IsFirstSeenOrder(KeysOfKind(dietData, KindAge), RowKeys(rows, KindAge))
     /\ IsDietOrder(dietKeys, RowKeys(rows, KindDiet))
     /\ IsGroupedOrder(KeysOfKind(dietData, KindDietGender),
                       RowKeys(rows, KindDietGender), dietKeys)
     /\ IsGroupedOrder(KeysOfKind(dietData, KindDietAge),
                       RowKeys(rows, KindDietAge), dietKeys)

\* three retained rows whose pairs interleave two diet groups, with a
\* numeric-looking diet label met after a plain one
C3_Witness ==
  LET rows == Rows
  IN /\ pc[1] = "done"
     /\ Len(rows) = 3
     /\ rows[1].dietGroup = "vegan" /\ rows[2].dietGroup = "7" /\ rows[3].dietGroup = "vegan"
     /\ rows[1].gender # rows[3].gender
     /\ KeysOfKind(dietData, KindDiet) = <<<<"7", "All", "All">>, <<"vegan", "All", "All">>>>

\* ------------------------------------------------------------------------
\* Rows without a diet group
\* ------------------------------------------------------------------------
Remove(seq, i) == SubSeq(seq, 1, i - 1) \o SubSeq(seq, i + 1, Len(seq))

\* the positions of the rows of rawData whose cleaned diet group is empty
EmptyDietRows ==
  LET cols == ActualColumns(rawData)
  IN {i \in 1..Len(rawData) : cleanString(RowValue(rawData[i], cols, "dietGroup")) = ""}

\* C4 (as stated): a row whose diet group is empty or missing after cleaning
\* contributes nothing, so the output equals the output for the input
\* without that row.
C4_EmptyDietRowAbsent ==
  \A i \in EmptyDietRows : ProcessedData(Remove(rawData, i)) = dietData

\* C4 (amended): such a row creates no bucket and adds no sample to any of
\* the five accumulators; the output equals the output for the input without
\* the row whenever removing it leaves the column mapping (read from the
\* first row) unchanged.
C4_EmptyDietRowContributesNothing ==
  LET cols == ActualColumns(rawData)
  IN \A i \in EmptyDietRows :
       /\ LET before == Accumulate(rawData, i - 1, cols)
          IN ProcessRow(before, rawData[i], cols) = before
       /\ ActualColumns(Remove(rawData, i)) = cols
            => ProcessedData(Remove(rawData, i)) = dietData

\* a row without diet group, but with gender, age and values, among retained rows
C4_Witness ==
  LET cols == ActualColumns(rawData)
  IN /\ pc[1] = "done"
     /\ dietData # <<>>
     /\ \E i \in EmptyDietRows :
          /\ i > 1
          /\ cleanString(RowValue(rawData[i], cols, "gender")) = "female"
          /\ RowValue(rawData[i], cols, "ghgs") = Num(Fin(10, 1))

\* ------------------------------------------------------------------------
\* Category canonicalisation
\* ------------------------------------------------------------------------
\* the label the mapping table gives a code, or the fallback
TableLabel(table, code, fallback) ==
  IF HasOwn(table, code) THEN GetOwn(table, code).s ELSE fallback

LabelsOfKind(data, kind, n) ==
  LET keys == KeysOfKind(data, kind) IN {keys[i][n] : i \in 1..Len(keys)}

\* C5: for every retained row a gender or age code that is not a key of its
\* table becomes "Unknown", a diet code that is a key of the diet table
\* becomes the table's value, and any other diet code is kept unchanged;
\* these are the labels of the buckets.
C5_Canonicalization ==
  LET rows == Rows
  IN /\ LabelsOfKind(dietData, KindDiet, 1) =
          {TableLabel(dietGroupMapping, rows[i].dietCode, rows[i].dietCode) : i \in 1..Len(rows)}
     /\ LabelsOfKind(dietData, KindGender, 2) =
          {TableLabel(genderMapping, rows[i].genderCode, "Unknown") : i \in 1..Len(rows)}
     /\ LabelsOfKind(dietData, KindAge, 3) =
          {TableLabel(ageGroupMapping, rows[i].ageCode, "Unknown") : i \in 1..Len(rows)}

\* ------------------------------------------------------------------------
\* Normalisation
\* ------------------------------------------------------------------------
\* m is the maximum raw mean of the indicator over the filtered records
IsMaxOf(m, filtered, ind) ==
  /\ \E i \in 1..Len(filtered) : filtered[i][ind] = m
  /\ \A i \in 1..Len(filtered) : NumLeq(filtered[i][ind], m)

NonNegative(filtered, ind) ==
  \A i \in 1..Len(filtered) : NumLeq(Zero, filtered[i][ind])

\* the point lies in [0, weight], and reaches weight only at a bucket whose
\* raw mean is the maximum
InRange(p, filtered) ==
  /\ NumLeq(Zero, p.normalizedValue)
  /\ NumLeq(p.normalizedValue, p.weight)
  /\ p.normalizedValue = p.weight =>
       \E i \in 1..Len(filtered) :
         /\ filtered[i].dietGroup = p.dietGroup
         /\ filtered[i].ageGroup = p.ageGroup
         /\ IsMaxOf(filtered[i][p.indicator], filtered, p.indicator)

\* C6 (as stated): for every non-empty filtered subset, every indicator and
\* every bucket, the normalised value of the series lies in [0, weight] and
\* equals weight only where the raw mean is the indicator's maximum.
C6_NormalizedInRange ==
  LET filtered == filteredData(dietData)
  IN \A p \in seriesData(dietData) : InRange(p, filtered)

\* C6 (amended): the same, for the indicators none of whose raw means over
\* the subset is negative.
C6_NormalizedInRangeNonNegative ==
  LET filtered == filteredData(dietData)
  IN \A p \in seriesData(dietData) :
       NonNegative(filtered, p.indicator) => InRange(p, filtered)

\* two buckets of one indicator: one at its weight, one strictly inside
C6_Witness ==
  /\ pc[1] = "done"
  /\ \E p, q \in seriesData(dietData) :
       /\ p.indicator = "landUse" /\ q.indicator = "landUse"
       /\ NonNegative(filteredData(dietData), "landUse")
       /\ p.normalizedValue = p.weight
       /\ NumLt(Zero, q.normalizedValue) /\ NumLt(q.normalizedValue, q.weight)

\* C7 (as stated): when the maximum raw mean of an indicator over the
\* non-empty filtered subset is 0, the series holds 0 for that indicator in
\* every bucket (not NaN, not infinite).
C7_ZeroMaxYieldsZero ==
  LET filtered == filteredData(dietData)
  IN \A p \in seriesData(dietData) :
       IsMaxOf(Zero, filtered, p.indicator) => p.normalizedValue = Zero

\* C7 (amended): the same, when no raw mean of the indicator is negative,
\* that is when all its raw means are 0.
C7_AllZeroYieldsZero ==
  LET filtered == filteredData(dietData)
  IN \A p \in seriesData(dietData) :
       IsMaxOf(Zero, filtered, p.indicator) /\ NonNegative(filtered, p.indicator)
         => p.normalizedValue = Zero

\* an indicator whose raw means are all 0, in a subset of two buckets where
\* another indicator is not 0
C7_Witness ==
  LET filtered == filteredData(dietData)
  IN /\ pc[1] = "done"
     /\ Len(filtered) >= 2
     /\ IsMaxOf(Zero, filtered, "landUse") /\ NonNegative(filtered, "landUse")
     /\ ~IsMaxOf(Zero, filtered, "ghgs")
     /\ \E p \in seriesData(dietData) : p.indicator = "landUse" /\ p.normalizedValue = Zero

\* ------------------------------------------------------------------------
\* Kinds of the records
\* ------------------------------------------------------------------------
\* the number of distinct keys of a kind among the retained rows
KeyCount(rows, kind) == Cardinality({RowKey(rows[i], kind) : i \in 1..Len(rows)})

\* the kind of the loop that emits the record at a position of the output
EmittedKind(rows, k) ==
  LET n1 == KeyCount(rows, KindDiet)
      n2 == n1 + KeyCount(rows, KindGender)
      n3 == n2 + KeyCount(rows, KindAge)
      n4 == n3 + KeyCount(rows, KindDietGender)
  IN IF k <= n1 THEN KindDiet
     ELSE IF k <= n2 THEN KindGender
     ELSE IF k <= n3 THEN KindAge
     ELSE IF k <= n4 THEN KindDietGender
     ELSE KindDietAge

\* C8: no record combines all three dimensions: each has gender = "All" or
\* ageGroup = "All"; the dimensions outside the kind of the loop that emits a
\* record are exactly "All" and the dimensions of that kind are never "All".
C8_NoTripleCombination ==
  LET rows == Rows
  IN \A k \in 1..Len(dietData) :
       /\ dietData[k].gender = "All" \/ dietData[k].ageGroup = "All"
       /\ Kind(dietData[k]) = EmittedKind(rows, k)

\* a retained row whose raw diet, gender and age cells all spell "All"
C8_Witness ==
  /\ pc[1] = "done"
  /\ \E i \in 1..Len(Rows) :
       Rows[i].dietCode = "all" /\ Rows[i].genderCode = "all" /\ Rows[i].ageCode = "all"
  /\ Len(dietData) >= 10

\* ------------------------------------------------------------------------
\* Label lists
\* ------------------------------------------------------------------------
\* C9: in every state each of dietGroups, genderGroups and ageGroups has no
\* duplicates, holds exactly the values of its field in dietData, and lists
\* them in order of first occurrence in dietData.
C9_LabelLists ==
  /\ IsFirstSeenOrder(dietGroups(dietData),
                      [i \in 1..Len(dietData) |-> dietData[i].dietGroup])
  /\ IsFirstSeenOrder(genderGroups(dietData),
                      [i \in 1..Len(dietData) |-> dietData[i].gender])
  /\ IsFirstSeenOrder(ageGroups(dietData),
                      [i \in 1..Len(dietData) |-> dietData[i].ageGroup])

\* lists shorter than the output, with the sentinel met last, resp. first
C9_Witness ==
  /\ pc[1] = "done"
  /\ Len(dietData) >= 10
  /\ Len(dietGroups(dietData)) = 3 /\ dietGroups(dietData)[3] = "All"
  /\ Len(genderGroups(dietData)) = 3 /\ genderGroups(dietData)[1] = "All"
  /\ Len(ageGroups(dietData)) = 3 /\ ageGroups(dietData)[1] = "All"

\* ------------------------------------------------------------------------
\* Column reconciliation
\* ------------------------------------------------------------------------
\* the first row's headers, in the order the parser inserted them
FirstRowHeaders ==
  IF rawData = <<>> THEN <<>> ELSE [i \in 1..Len(rawData[1]) |-> rawData[1][i].k]

\* C10: each canonical field is mapped to the first header, in the first
\* row's header order, whose lower-cased trimmed form is one of the field's
\* aliases; a field without such a header stays unmapped and its value is
\* absent for every row, so an unmapped diet-group column gives an empty
\* output, with error still null when rows were parsed.
C10_ColumnReconciliation ==
  LET cols == ActualColumns(rawData)
      headers == FirstRowHeaders
  IN \A f \in 1..Len(columnMap) :
       LET hits == {i \in 1..Len(headers) :
                      includes(columnMap[f].v, trim(toLowerCase(headers[i])))}
       IN IF hits # {}
          THEN /\ HasOwn(cols, columnMap[f].k)
               /\ GetOwn(cols, columnMap[f].k) =
                    Str(headers[CHOOSE i \in hits : \A j \in hits : i <= j])
          ELSE /\ ~HasOwn(cols, columnMap[f].k)
               /\ \A r \in 1..Len(rawData) :
                    RowValue(rawData[r], cols, columnMap[f].k) = Undefined
               /\ columnMap[f].k = "dietGroup" =>
                    dietData = <<>> /\ (rawData # <<>> => error = Null)

\* ------------------------------------------------------------------------
\* Means
\* ------------------------------------------------------------------------
\* C11: every record of the five kinds reports, for every indicator, the sum
\* of the coerced values of exactly the retained rows whose canonical labels
\* match its key, divided by the number of those rows; every retained row
\* is counted in exactly one bucket of each kind.
C11_MeanOverMatchingRows ==
  LET rows == Rows
  IN /\ \A k \in 1..Len(dietData) :
          LET members == Members(dietData[k], rows)
          IN /\ members # <<>>
             /\ \A ind \in IndicatorSet :
                  dietData[k][ind] = MeanOf(AllValues(members, ind))
     /\ \A r \in 1..Len(rows) : \A kind \in FiveKinds :
          Cardinality({k \in 1..Len(dietData) :
                         Kind(dietData[k]) = kind /\ Matches(dietData[k], rows[r])}) = 1

\* a diet x age bucket of two rows whose means are 5 (from 10 and 0) and 5/4
\* (from "2,5" and 0), next to a gender bucket of a single row
C11_Witness ==
  LET rows == Rows
  IN /\ pc[1] = "done"
     /\ Len(rows) = 3
     /\ \E k \in 1..Len(dietData) :
          /\ Kind(dietData[k]) = KindDietAge
          /\ Len(Members(dietData[k], rows)) = 2
          /\ dietData[k].ghgs = Fin(5, 1)
          /\ dietData[k].eutrophication = Fin(5, 4)
     /\ \E k \in 1..Len(dietData) :
          Kind(dietData[k]) = KindGender /\ Len(Members(dietData[k], rows)) = 1

\* ------------------------------------------------------------------------
\* The lifecycle of an invocation
\* ------------------------------------------------------------------------
InFlight(i) == pc[i] \in {"fetch", "text"}

\* the invocation has completed after reading its body
Succeeded(i) == pc[i] = "done" /\ csvData[i] # <<>>

\* the invocation has completed without reading a body
Failed(i) == pc[i] = "done" /\ csvData[i] = <<>>

\* the text of a status code
StatusText(status) ==
  CASE status = 404 -> "404"
    [] status = 500 -> "500"
    [] OTHER -> "200"

\* C12: when the fetch of an invocation rejects or resolves with a
\* non-success status, the invocation completes in that very step with error
\* non-null (the status code for a non-success response) and loading false,
\* nothing is parsed or aggregated (rawData, dietData and its csvData are
\* untouched), and a completed invocation never fetches again.
C12_FetchFailureIsTerminal ==
  [][\A i \in Calls :
       /\ (pc[i] = "fetch" /\ pc'[i] # "fetch" /\ ~ok(response'[i])) =>
            /\ pc'[i] = "done"
            /\ error' # Null
            /\ response'[i] # 0 => error' = Str(StatusText(response'[i]))
            /\ loading' = FALSE
            /\ csvData'[i] = <<>>
            /\ UNCHANGED <<rawData, dietData, writes>>
       /\ pc[i] = "done" => pc'[i] = "done" /\ response'[i] = response[i]]_vars

\* an invocation ended by a 404 after an earlier one had delivered data
C12_Witness ==
  \E i \in Calls :
    /\ Failed(i) /\ response[i] = 404
    /\ error = Str("404") /\ loading = FALSE
    /\ dietData # <<>> /\ writes # <<>>
\* the summaries of a file
Output(csv) == ProcessedData(PapaParseData(csv))

\* no bucket label names a property inherited from Object.prototype, so
\* that !map[label] is true exactly of the labels without a bucket and no
\* push is made on an inherited value
LabelsAreOwnKeys ==
  \A k \in 1..Len(dietData) :
    /\ Get(EmptyObject, dietData[k].dietGroup) = Undefined
    /\ Get(EmptyObject, dietData[k].gender) = Undefined
    /\ Get(EmptyObject, dietData[k].ageGroup) = Undefined

\* C13: only a transport failure sets error: an invocation whose body was
\* read ends with error null, loading false, rawData the parsed rows and
\* dietData their summaries, whatever parser errors, unmapped columns,
\* malformed cells or unknown codes the file has (no label makes a bucket
\* access throw); error is non-null only after an invocation that read no
\* body.
C13_OnlyTransportSetsError ==
  /\ Succeeded(1) =>
       /\ error = Null
       /\ loading = FALSE
       /\ rawData = PapaParseData(csvData[1][1])
       /\ dietData = ProcessedData(rawData)
       /\ LabelsAreOwnKeys
  /\ error # Null => Failed(1)

\* a file with a short line (a parser error), an unmapped age column, an
\* unknown gender code, and summaries nevertheless
C13_Witness ==
  /\ Succeeded(1)
  /\ PapaParseErrors(csvData[1][1]) > 0
  /\ ~HasOwn(ActualColumns(rawData), "ageGroup")
  /\ dietData # <<>>
  /\ error = Null

\* C14: dietData is always exactly the output of the invocation that
\* assigned it last (empty before any assignment), whatever the order in
\* which the invocations were started; the invocations that assigned are
\* those that read their body; outputs are never merged.
C14_LastWriteWins ==
  /\ dietData = IF writes = <<>> THEN <<>>
                ELSE Output(csvData[writes[Len(writes)]][1])
  /\ {writes[k] : k \in 1..Len(writes)} = {i \in Calls : Succeeded(i)}
  /\ \A k, l \in 1..Len(writes) : k # l => writes[k] # writes[l]

\* two overlapping invocations with different outputs, the first started
\* writing last
C14_Witness ==
  /\ writes = <<2, 1>>
  /\ Output(csvData[1][1]) # Output(csvData[2][1])
  /\ Output(csvData[2][1]) # <<>>
  /\ dietData = Output(csvData[1][1])
\* invocation i completes in this step
Completes(i) == pc[i] # "done" /\ pc'[i] = "done"

\* C15: every started invocation whose awaited requests settle eventually
\* completes; at its completion loading is false and exactly one of two
\* things has happened: it assigned the summaries of its file to dietData,
\* or it set error to a non-null message; an invocation only moves forward
\* (idle, fetch, text, done) and is never taken back.
C15_EveryLoadCompletes ==
  /\ \A i \in Calls : InFlight(i) ~> (pc[i] = "done")
  /\ [][\A i \in Calls :
          /\ Completes(i) =>
               /\ loading' = FALSE
               /\ IF csvData'[i] # <<>>
                  THEN /\ dietData' = Output(csvData'[i][1])
                       /\ writes' = Append(writes, i)
                       /\ error' = error
                  ELSE /\ error' # Null
                       /\ UNCHANGED <<dietData, writes>>
          /\ pc[i] = "fetch" => pc'[i] \in {"fetch", "text", "done"}
          /\ pc[i] = "text" => pc'[i] \in {"text", "done"}
          /\ pc[i] = "done" => pc'[i] = "done"]_vars

\* both outcomes: one invocation completed with data, another with an error
C15_Witness ==
  \E i, j \in Calls :
    /\ Succeeded(i) /\ dietData = Output(csvData[i][1]) /\ dietData # <<>>
    /\ Failed(j) /\ error # Null
    /\ loading = FALSE
\* the invocations that have completed
Completed == {i \in Calls : pc[i] = "done"}

\* the greatest element of a non-empty set of invocations: in SpecSeq the
\* one started, and completed, last
Latest(S) == CHOOSE i \in S : \A j \in S : j <= i

\* C16 (as stated): after any invocation completes with no other overlapping
\* it, rawData and dietData hold only data derived from that invocation's
\* input (nothing, when it read no input); nothing of an earlier invocation
\* remains.
C16_SupersededOnAnyCompletion ==
  (Quiet /\ Completed # {}) =>
    LET last == Latest(Completed)
    IN IF csvData[last] # <<>>
       THEN rawData = PapaParseData(csvData[last][1]) /\ dietData = ProcessedData(rawData)
       ELSE rawData = <<>> /\ dietData = <<>>

\* C16 (amended): after an invocation completes with no other overlapping
\* it, rawData and dietData hold only data derived from the input of the
\* latest invocation that completed successfully, and are empty when there
\* is none: a successful reload supersedes them in full, a failed one leaves
\* them as they were.
C16_SupersededOnSuccess ==
  (Quiet /\ Completed # {}) =>
    LET succeeded == {i \in Calls : Succeeded(i)}
    IN IF succeeded # {}
       THEN /\ rawData = PapaParseData(csvData[Latest(succeeded)][1])
            /\ dietData = ProcessedData(rawData)
       ELSE rawData = <<>> /\ dietData = <<>>

\* a reload with another file after a load that had delivered summaries
C16_Witness ==
  /\ Quiet
  /\ Succeeded(1) /\ Succeeded(2)
  /\ Output(csvData[1][1]) # <<>>
  /\ Output(csvData[1][1]) # Output(csvData[2][1])
  /\ dietData = Output(csvData[2][1])

\* C17: in every reachable state loading is true whenever an invocation has
\* started and not yet completed.
C17_LoadingCoversInFlight ==
  (\E i \in Calls : InFlight(i)) => loading = TRUE

\* C18: whenever an invocation completes successfully and assigns dietData,
\* error is null at that moment, in every interleaving.
C18_ErrorNullOnSuccess ==
  [][\A i \in Calls : (Completes(i) /\ csvData'[i] # <<>>) => error' = Null]_vars
====
